---------------------------- MODULE Spec2Model ----------------------------
(***************************************************************************)
(* Model of the screenshot capture orchestrator (src/src/screenshot.js)    *)
(* and of the validation utilities it uses (src/unnamed/part_000).         *)
(*                                                                         *)
(* JavaScript runs one synchronous segment at a time: a call runs without  *)
(* interruption from one `await` to the next.  Each action below is one    *)
(* such segment of one call; the calls in flight interleave at the awaits. *)
(* The segments from the acquisition of a page to the settling of          *)
(* page.close() read and write only that page and the call's own locals;   *)
(* they commute with every step of every other call, so they are taken     *)
(* together with the segment that follows them (RunCaptureBody,            *)
(* RunElementBody).  The caller's continuation runs as the microtask that  *)
(* follows the settling of a call (Observe).                               *)
(***************************************************************************)
EXTENDS Naturals, Integers, Sequences, FiniteSets, TLC

\* ------------------------------------------------------------------ bounds

\* Number of invocations made on the orchestrator, numbered by arrival.
NumCalls == 3

\* Largest concurrency ceiling the constructor is given.
MaxConcurrentBound == 2

Calls == 1 .. NumCalls

\* ------------------------------------------------------------------ state

VARIABLES
    browser,            \* this.browser: NoBrowser, or the session it holds
    activeScreenshots,  \* this.activeScreenshots
    maxConcurrent,      \* this.options.maxConcurrent
    kind,               \* per call: the method invoked
    pc,                 \* per call: the await it is suspended at
    url,                \* per call: the url argument, while the call runs
    caught,             \* per call: the error its catch block received
    result,             \* per call: what its promise settled with, until observed
    status,             \* per call: how it ended: "ok", "rejected" or "failed"
    session,            \* per session (named by the call that launched it): its state
    teardowns,          \* per session: number of browser.close() calls on it
    closeTarget,        \* per close() call: the session whose close() it awaits
    page,               \* per page (named by the call that created it): its state
    pageCloses,         \* per page: number of page.close() calls on it
    incs,               \* per call: times it incremented activeScreenshots
    decs,               \* per call: times it decremented activeScreenshots
    activeAtEntry,      \* per call: activeScreenshots as the call found it
    selector,           \* per call: validatedSelector, while the call runs
    \* one networkidle wait (waitForCondition, lines 199-223)
    wpc,                \* where the wait is: "off", "sleep" or "returned"
    now,                \* Date.now(), in ms since the wait's page was ready
    startTime,          \* startTime
    lastRequestTime,    \* lastRequestTime
    wakeAt,             \* when the pending setTimeout(checkInterval) is due
    timeout,            \* waitFor.timeout, defaulted
    idleTimeMs,         \* idleTimeMs
    wresult,            \* how waitForCondition ended
    everIdle,           \* whether now - lastRequestTime has reached idleTimeMs
    requestEvery,       \* the page's traffic: a request every so many ms, or
                        \* 0 for requests and responses at any time
    \* one tool call, followed step by step (index.js, lines 269-361)
    tool,               \* request.params.name
    args,               \* request.params.arguments
    bpc,                \* the statement the call is at
    trace,              \* the steps taken, in order: the operations on the
                        \* counter, the browser, the page and the timers, and
                        \* a query's finding no element
    pageViewport,       \* the viewport page.setViewport received
    pageUserAgent,      \* the user-agent page.setUserAgent received
    screenshotBuffer,   \* screenshotBuffer
    metadata,           \* metadata, as sharp read it
    completion,         \* the value or error the orchestrator's method carries
    response,           \* what the handler returned
    \* one direct call of an exported function of utils.js
    fn,                 \* the function called
    input,              \* its argument
    output              \* what it returned or threw

mainVars == << browser, activeScreenshots, maxConcurrent, kind, pc, url,
               caught, result, status, session, teardowns, closeTarget, page,
               pageCloses, incs, decs, activeAtEntry, selector >>

waitVars == << wpc, now, startTime, lastRequestTime, wakeAt, timeout,
               idleTimeMs, wresult, everIdle, requestEvery >>

bodyVars == << tool, args, bpc, trace, pageViewport, pageUserAgent,
               screenshotBuffer, metadata, completion, response >>

pureVars == << fn, input, output >>

vars == << mainVars, waitVars, bodyVars, pureVars >>

orchestrator == << browser, activeScreenshots, maxConcurrent >>
sessions == << session, teardowns >>
pages == << page, pageCloses >>
counters == << incs, decs >>

\* this.browser = null
NoBrowser == 0

\* ------------------------------------------------------------------ errors

NoDetails == [url |-> "", originalError |-> ""]

\* createError(message, code, details)
createError(message, code, details) ==
    [message |-> message, code |-> code, details |-> details]

\* new Error(message): no code, no details
PlainError(message) == [message |-> message, code |-> "", details |-> NoDetails]

NoError == [message |-> "", code |-> "", details |-> NoDetails]

Ok == [tag |-> "ok", err |-> NoError]
Throw(e) == [tag |-> "error", err |-> e]
NoOutcome == [tag |-> "none", err |-> NoError]

\* ------------------------------------------------------------ validateUrl

\* What `new URL(u)` gives for the urls of the model.
Urls == {"https://a.test", "ftp://a.test/x", "not a url"}

UrlParses(u) == u \in {"https://a.test", "ftp://a.test/x"}

UrlProtocol(u) == IF u = "https://a.test" THEN "https:" ELSE "ftp:"

UrlHref(u) == IF u = "https://a.test" THEN "https://a.test/" ELSE u

\* Every url accepted as it is.
validateUrlAcceptsAll(u) == [tag |-> "ok", err |-> NoError, href |-> u]

\* validateUrl(url): the canonical href, or Error("Invalid URL: ...")
validateUrl(u) ==
    IF ~UrlParses(u)
      THEN Throw(PlainError("Invalid URL: " \o "Invalid URL"))
      ELSE IF UrlProtocol(u) \notin {"http:", "https:"}
             THEN Throw(PlainError("Invalid URL: "
                                   \o "Only HTTP and HTTPS URLs are supported"))
             ELSE [tag |-> "ok", err |-> NoError, href |-> UrlHref(u)]


\* ------------------------------------------------- viewport configuration

\* DEVICE_PRESETS (the user-agent strings are abbreviated)
DEVICE_PRESETS ==
    [ mobile  |-> [width |-> 375, height |-> 667, deviceScaleFactor |-> 2,
                   isMobile |-> TRUE, hasTouch |-> TRUE, userAgent |-> "iPhone"],
      tablet  |-> [width |-> 768, height |-> 1024, deviceScaleFactor |-> 2,
                   isMobile |-> TRUE, hasTouch |-> TRUE, userAgent |-> "iPad"],
      desktop |-> [width |-> 1920, height |-> 1080, deviceScaleFactor |-> 1,
                   isMobile |-> FALSE, hasTouch |-> FALSE, userAgent |-> "Windows"] ]

\* options.viewport as the caller gives it; an absent field is 0, "" or FALSE,
\* which JavaScript's `||` and `&&` treat like an absent one.
NoViewport ==
    [preset |-> "", width |-> 0, height |-> 0, deviceScaleFactor |-> 0,
     isMobile |-> FALSE, hasTouch |-> FALSE, userAgent |-> ""]

ViewportInputs ==
    { NoViewport,
      [NoViewport EXCEPT !.preset = "mobile"],
      [NoViewport EXCEPT !.width = 50],
      [NoViewport EXCEPT !.width = 6000, !.height = 99],
      [NoViewport EXCEPT !.preset = "mobile", !.width = 800, !.height = 600,
                         !.deviceScaleFactor = 3],
      [NoViewport EXCEPT !.preset = "watch", !.width = 800, !.height = 600,
                         !.userAgent = "custom"],
      [NoViewport EXCEPT !.preset = "constructor", !.width = 800] }

\* DEVICE_PRESETS is an object literal: besides its own three keys, a lookup
\* finds the properties every object inherits from Object.prototype.
InheritedNames == {"constructor", "toString"}

\* { ...DEVICE_PRESETS[name] } for an inherited name: a function has no own
\* enumerable property, so every field of the copy is absent.
SpreadOfInherited ==
    [width |-> 0, height |-> 0, deviceScaleFactor |-> 0,
     isMobile |-> FALSE, hasTouch |-> FALSE, userAgent |-> ""]

\* configureViewport, lines 155-168: the preset verbatim, else the explicit
\* fields with their defaults.
ResolveViewport(cfg) ==
    IF cfg.preset # "" /\ cfg.preset \in DOMAIN DEVICE_PRESETS
      THEN DEVICE_PRESETS[cfg.preset]
    ELSE IF cfg.preset # "" /\ cfg.preset \in InheritedNames
      THEN SpreadOfInherited
      ELSE [width |-> IF cfg.width # 0 THEN cfg.width ELSE 1920,
            height |-> IF cfg.height # 0 THEN cfg.height ELSE 1080,
            deviceScaleFactor |->
                IF cfg.deviceScaleFactor # 0 THEN cfg.deviceScaleFactor ELSE 1,
            isMobile |-> cfg.isMobile,
            hasTouch |-> cfg.hasTouch,
            userAgent |-> cfg.userAgent]

WidthBad(vp) == vp.width # 0 /\ (vp.width < 100 \/ vp.width > 5000)

HeightBad(vp) == vp.height # 0 /\ (vp.height < 100 \/ vp.height > 5000)

\* validateViewport(viewport): the violations joined by ", ", thrown as one Error
validateViewport(vp) ==
    IF WidthBad(vp) /\ HeightBad(vp)
      THEN Throw(PlainError("Width must be between 100 and 5000 pixels" \o ", "
                            \o "Height must be between 100 and 5000 pixels"))
      ELSE IF WidthBad(vp)
        THEN Throw(PlainError("Width must be between 100 and 5000 pixels"))
        ELSE IF HeightBad(vp)
          THEN Throw(PlainError("Height must be between 100 and 5000 pixels"))
          ELSE Ok

\* --------------------------------------------------------------- selectors

\* Selector arguments; "" stands for an absent or empty (falsy) selector.
SelectorInputs == {"", ".nav", " .nav ", "javascript:alert(1)"}

\* One of the dangerousPatterns matches.
Dangerous(sel) == sel = "javascript:alert(1)"

Trim(sel) == IF sel = " .nav " THEN ".nav" ELSE sel

\* sanitizeSelector(selector): null, the trimmed selector, or a plain Error
sanitizeSelector(sel) ==
    IF sel = ""
      THEN [tag |-> "null", err |-> NoError, value |-> ""]
      ELSE IF Dangerous(sel)
        THEN [tag |-> "error",
              err |-> PlainError("Invalid selector: contains dangerous patterns"),
              value |-> ""]
        ELSE [tag |-> "ok", err |-> NoError, value |-> Trim(sel)]

\* ---------------------------------------------------------- wait protocol

\* options.waitFor as the caller gives it; type "" is an absent waitFor.
NoWait == [type |-> "", value |-> ""]

WaitInputs ==
    { NoWait,
      [type |-> "selector", value |-> ".nav"],
      [type |-> "selector", value |-> ""],
      [type |-> "selector", value |-> "javascript:alert(1)"],
      [type |-> "function", value |-> "() => true"],
      [type |-> "timeout", value |-> "500"],
      [type |-> "networkidle", value |-> "500"],
      [type |-> "bogus", value |-> ""] }

\* The awaited browser operation that rejects in this run of a body, if any.
FailPoints ==
    { "none", "setViewport", "setUserAgent", "goto", "waitFor", "query",
      "screenshot", "metadata", "resize", "viewport", "title" }

\* The error a rejecting browser operation carries.
BrowserError(op) == PlainError(op \o " failed")

\* waitForCondition(page, waitFor) with the operation `f` rejecting.  The
\* networkidle polling loop ends by `break` or by its loop condition and
\* returns normally either way (see the Wait* actions below).
waitForCondition(w, f) ==
    CASE w.type = "selector" ->
           LET s == sanitizeSelector(w.value)
           IN  IF s.tag = "error" THEN Throw(s.err)
               ELSE IF s.tag = "null"
                 THEN Throw(createError("Invalid selector provided",
                                        "INVALID_SELECTOR", NoDetails))
                 ELSE IF f = "waitFor" THEN Throw(BrowserError("waitForSelector"))
                      ELSE Ok
      [] w.type = "function" ->
           IF f = "waitFor" THEN Throw(BrowserError("waitForFunction")) ELSE Ok
      [] w.type = "timeout" -> Ok
      [] w.type = "networkidle" -> Ok
      [] OTHER ->
           Throw(createError("Unknown wait condition type: " \o w.type,
                             "INVALID_WAIT_CONDITION", NoDetails))

\* ------------------------------------------------------------ try bodies

\* Pixel sizes of the image the browser returns.
ImageSizes ==
    { <<1920, 1080>>, <<8000, 8000>>, <<16000, 8000>>, <<8311, 4000>>,
      <<1000, 9000>> }

maxDimension == 8000

NeedsResize(img) == img[1] > maxDimension \/ img[2] > maxDimension

Max(a, b) == IF a >= b THEN a ELSE b

\* Where the double product d * (8000 / limit) falls just below the integer
\* the exact product is: 8311 * (8000 / 8311) = 7999.999999999999.
DoubleRoundsBelow == { <<8311, 8311>> }

\* Each side scaled to the cap by itself.
ScaledFloorOwnSide(d, limit) == (d * maxDimension) \div d

\* lines 110-112: Math.floor(d * scale), scale = Math.min(8000 / w, 8000 / h)
\* = 8000 / limit for the larger side `limit`, in IEEE-754 doubles
ScaledFloor(d, limit) ==
    (d * maxDimension) \div limit
        - (IF <<d, limit>> \in DoubleRoundsBelow THEN 1 ELSE 0)

\* lines 110-112: << newWidth, newHeight >>
NewSize(img) ==
    << ScaledFloor(img[1], Max(img[1], img[2])),
       ScaledFloor(img[2], Max(img[1], img[2])) >>

\* captureScreenshot, lines 56-137: the body of the inner try, from
\* configureViewport to the return value, with browser operation `f` rejecting.
CaptureBody(opts, img, f) ==
    LET vp == ResolveViewport(opts.viewport)
        w  == waitForCondition(opts.waitFor, f)
    IN  IF validateViewport(vp).tag = "error" THEN validateViewport(vp)
        ELSE IF f = "setViewport" THEN Throw(BrowserError("setViewport"))
        ELSE IF vp.userAgent # "" /\ f = "setUserAgent"
          THEN Throw(BrowserError("setUserAgent"))
        ELSE IF f = "goto" THEN Throw(BrowserError("goto"))
        ELSE IF opts.waitFor.type # "" /\ w.tag = "error" THEN w
        ELSE IF f = "screenshot" THEN Throw(BrowserError("screenshot"))
        ELSE IF f = "metadata"
          THEN Throw(createError("Failed to read screenshot metadata",
                                 "IMAGE_METADATA_ERROR",
                                 [url |-> "", originalError |-> "metadata failed"]))
        ELSE IF NeedsResize(img) /\ f = "resize"
          THEN Throw(createError("Failed to resize screenshot image",
                                 "IMAGE_RESIZE_ERROR",
                                 [url |-> "", originalError |-> "resize failed"]))
        ELSE IF f = "viewport" THEN Throw(BrowserError("viewport"))
        ELSE IF f = "title" THEN Throw(BrowserError("title"))
        ELSE Ok

\* captureElement, lines 242-301: the body of the try; `present` says whether
\* page.$(selector) finds an element.
ElementBody(opts, sel, present, img, f) ==
    LET vp == ResolveViewport(opts.viewport)
    IN  IF validateViewport(vp).tag = "error" THEN validateViewport(vp)
        ELSE IF f = "setViewport" THEN Throw(BrowserError("setViewport"))
        ELSE IF vp.userAgent # "" /\ f = "setUserAgent"
          THEN Throw(BrowserError("setUserAgent"))
        ELSE IF f = "goto" THEN Throw(BrowserError("goto"))
        ELSE IF f = "query" THEN Throw(BrowserError("query"))
        ELSE IF ~present
          THEN Throw(createError("Element not found: " \o sel,
                                 "ELEMENT_NOT_FOUND", NoDetails))
        ELSE IF f = "screenshot" THEN Throw(BrowserError("screenshot"))
        ELSE IF f = "metadata"
          THEN Throw(createError("Failed to read element screenshot metadata",
                                 "IMAGE_METADATA_ERROR",
                                 [url |-> "", originalError |-> "metadata failed"]))
        ELSE IF NeedsResize(img) /\ f = "resize"
          THEN Throw(createError("Failed to resize element screenshot image",
                                 "IMAGE_RESIZE_ERROR",
                                 [url |-> "", originalError |-> "resize failed"]))
        ELSE Ok

CaptureOptions == [viewport : ViewportInputs, waitFor : WaitInputs]

ElementOptions == [viewport : ViewportInputs]

\* Every way the body of captureScreenshot's inner try can end.
CaptureOutcomes ==
    { CaptureBody(opts, img, f) :
        opts \in CaptureOptions, img \in ImageSizes, f \in FailPoints }

\* Every way the body of captureElement's try can end, for a selector.
ElementOutcomes(sel) ==
    { ElementBody(opts, sel, present, img, f) :
        opts \in ElementOptions, present \in BOOLEAN, img \in ImageSizes,
        f \in FailPoints }


\* ------------------------------------------------------------ constructor

\* constructor: maxConcurrent: options.maxConcurrent || 5
MaxConcurrentOption(opt) == IF opt = 0 THEN 5 ELSE opt

InitMain ==
    /\ browser = NoBrowser
    /\ activeScreenshots = 0
    /\ maxConcurrent \in { MaxConcurrentOption(o) : o \in 1 .. MaxConcurrentBound }
    /\ kind = [c \in Calls |-> ""]
    /\ pc = [c \in Calls |-> "idle"]
    /\ url = [c \in Calls |-> ""]
    /\ selector = [c \in Calls |-> ""]
    /\ caught = [c \in Calls |-> NoError]
    /\ result = [c \in Calls |-> NoOutcome]
    /\ status = [c \in Calls |-> ""]
    /\ session = [c \in Calls |-> "none"]
    /\ teardowns = [c \in Calls |-> 0]
    /\ closeTarget = [c \in Calls |-> NoBrowser]
    /\ page = [c \in Calls |-> "none"]
    /\ pageCloses = [c \in Calls |-> 0]
    /\ incs = [c \in Calls |-> 0]
    /\ decs = [c \in Calls |-> 0]
    /\ activeAtEntry = [c \in Calls |-> 0]

\* No networkidle wait has been started.
InitWaitVars ==
    /\ wpc = "off"
    /\ now = 0
    /\ startTime = 0
    /\ lastRequestTime = 0
    /\ wakeAt = 0
    /\ timeout = 0
    /\ idleTimeMs = 0
    /\ wresult = NoOutcome
    /\ everIdle = FALSE
    /\ requestEvery = 0

\* request.params.arguments; an absent argument is "", 0 or "absent"
NoArgs ==
    [url |-> "", selector |-> "", viewport |-> NoViewport, waitFor |-> NoWait,
     standardDelay |-> "absent", delay |-> 0]

\* A buffer of image bytes, by its pixel size and by who encoded it.
NoImage == [width |-> 0, height |-> 0, bytes |-> "none"]

NoMetadata == [width |-> 0, height |-> 0]

NoResponse == [isError |-> FALSE, content |-> << >>]

\* No tool call has been received.
InitBodyVars ==
    /\ tool = ""
    /\ args = NoArgs
    /\ bpc = "off"
    /\ trace = << >>
    /\ pageViewport = SpreadOfInherited
    /\ pageUserAgent = ""
    /\ screenshotBuffer = NoImage
    /\ metadata = NoMetadata
    /\ completion = NoOutcome
    /\ response = NoResponse

\* No function of utils.js has been called directly.
InitPureVars ==
    /\ fn = ""
    /\ input = NoViewport
    /\ output = NoOutcome

Init == InitMain /\ InitWaitVars /\ InitBodyVars /\ InitPureVars

\* ------------------------------------------------------- admission counter

\* The check written with > for >=.
AdmissionFullOffByOne(active, max) == active > max

\* line 44: this.activeScreenshots >= this.options.maxConcurrent
AdmissionFull(active, max) == active >= max

\* line 48: this.activeScreenshots++
AdmitSlot(active) == active + 1

\* The decrement left out.
ReleaseSlotForgotten(active) == active

\* line 150: this.activeScreenshots--
ReleaseSlot(active) == active - 1

\* The details built from the validated url instead of the url argument.
WrapCaptureFailedValidatedUrl(u, e) ==
    createError("Screenshot capture failed: " \o e.message, "CAPTURE_FAILED",
                [url |-> IF UrlParses(u) THEN UrlHref(u) ELSE u,
                 originalError |-> e.message])

\* lines 143-148: the outer catch wraps whatever was thrown
WrapCaptureFailed(u, e) ==
    createError("Screenshot capture failed: " \o e.message, "CAPTURE_FAILED",
                [url |-> u, originalError |-> e.message])

\* The admission check made inside the try, so that the catch wraps it.
RateLimitErrorWrapped ==
    createError("Screenshot capture failed: " \o "Too many concurrent screenshot requests",
                "CAPTURE_FAILED",
                [url |-> "", originalError |-> "Too many concurrent screenshot requests"])

\* line 45
RateLimitError ==
    createError("Too many concurrent screenshot requests", "RATE_LIMIT_EXCEEDED",
                NoDetails)

\* No settled promise is waiting for its caller's continuation.
Quiet == \A c \in Calls : pc[c] # "settled"

\* Calls arrive in the order of their numbers.
MayArrive(c) ==
    /\ Quiet
    /\ pc[c] = "idle"
    /\ IF c = 1 THEN TRUE ELSE pc[c - 1] # "idle"

\* ------------------------------------------------------------- initialize

\* A launch on every call, whether or not a session is held.
InitializeEnterAlwaysLaunches(c) ==
    /\ session' = [session EXCEPT ![c] = "launching"]
    /\ pc' = [pc EXCEPT ![c] = "launch"]

\* initialize(), lines 18-31, up to its await: launch only if no session is held
InitializeEnter(c) ==
    IF browser = NoBrowser
      THEN /\ session' = [session EXCEPT ![c] = "launching"]
           /\ pc' = [pc EXCEPT ![c] = "launch"]
      ELSE /\ session' = session
           /\ pc' = [pc EXCEPT ![c] = "inited"]

\* The catch and finally shared by both capture methods: an element capture
\* releases a slot it never took.
FinishCallReleasesAlways(c, outcome) ==
    /\ pc' = [pc EXCEPT ![c] = "settled"]
    /\ status' = [status EXCEPT ![c] = IF outcome.tag = "ok" THEN "ok" ELSE "failed"]
    /\ IF kind[c] \in {"capture", "element"}
         THEN /\ result' = [result EXCEPT ![c] =
                    IF outcome.tag = "ok" THEN Ok
                    ELSE Throw(WrapCaptureFailed(url[c], outcome.err))]
              /\ caught' = [caught EXCEPT ![c] = outcome.err]
              /\ activeScreenshots' = ReleaseSlot(activeScreenshots)
              /\ decs' = [decs EXCEPT ![c] = @ + (activeScreenshots - activeScreenshots')]
         ELSE /\ result' = [result EXCEPT ![c] = outcome]
              /\ caught' = caught
              /\ UNCHANGED << activeScreenshots, decs >>

\* The decrement written at the end of the try instead of in a finally: a
\* call that throws keeps its slot.
FinishCallWithoutFinally(c, outcome) ==
    /\ pc' = [pc EXCEPT ![c] = "settled"]
    /\ status' = [status EXCEPT ![c] = IF outcome.tag = "ok" THEN "ok" ELSE "failed"]
    /\ IF kind[c] = "capture"
         THEN /\ result' = [result EXCEPT ![c] =
                    IF outcome.tag = "ok" THEN Ok
                    ELSE Throw(WrapCaptureFailed(url[c], outcome.err))]
              /\ caught' = [caught EXCEPT ![c] = outcome.err]
              /\ activeScreenshots' =
                    IF outcome.tag = "ok" THEN ReleaseSlot(activeScreenshots)
                    ELSE activeScreenshots
              /\ decs' = [decs EXCEPT ![c] = @ + (activeScreenshots - activeScreenshots')]
         ELSE /\ result' = [result EXCEPT ![c] = outcome]
              /\ caught' = caught
              /\ UNCHANGED << activeScreenshots, decs >>

\* The call's promise settles.  captureScreenshot's catch and finally (lines
\* 143-151) wrap the error and release the slot; the other methods let the
\* outcome through.
FinishCall(c, outcome) ==
    /\ pc' = [pc EXCEPT ![c] = "settled"]
    /\ status' = [status EXCEPT ![c] = IF outcome.tag = "ok" THEN "ok" ELSE "failed"]
    /\ IF kind[c] = "capture"
         THEN /\ result' = [result EXCEPT ![c] =
                    IF outcome.tag = "ok" THEN Ok
                    ELSE Throw(WrapCaptureFailed(url[c], outcome.err))]
              /\ caught' = [caught EXCEPT ![c] = outcome.err]
              /\ activeScreenshots' = ReleaseSlot(activeScreenshots)
              /\ decs' = [decs EXCEPT ![c] = @ + (activeScreenshots - activeScreenshots')]
         ELSE /\ result' = [result EXCEPT ![c] = outcome]
              /\ caught' = caught
              /\ UNCHANGED << activeScreenshots, decs >>

\* The caller's continuation receives the settled promise; the call's frame
\* is gone.
Observe(c) ==
    /\ pc[c] = "settled"
    /\ pc' = [pc EXCEPT ![c] = "done"]
    /\ result' = [result EXCEPT ![c] = NoOutcome]
    /\ caught' = [caught EXCEPT ![c] = NoError]
    /\ url' = [url EXCEPT ![c] = ""]
    /\ selector' = [selector EXCEPT ![c] = ""]
    /\ UNCHANGED << orchestrator, kind, status, sessions, closeTarget, pages,
                    counters, activeAtEntry >>
    /\ UNCHANGED << waitVars, bodyVars, pureVars >>

\* ------------------------------------------------------ captureScreenshot

\* captureScreenshot(url, options), lines 43-52: from the call to its first
\* await.  The admission check, the increment, validateUrl and the entry of
\* initialize() run in one synchronous segment.
CaptureScreenshotCall(c, u) ==
    /\ MayArrive(c)
    /\ kind' = [kind EXCEPT ![c] = "capture"]
    /\ url' = [url EXCEPT ![c] = u]
    /\ activeAtEntry' = [activeAtEntry EXCEPT ![c] = activeScreenshots]
    /\ IF AdmissionFull(activeScreenshots, maxConcurrent)
         THEN /\ pc' = [pc EXCEPT ![c] = "settled"]
              /\ result' = [result EXCEPT ![c] = Throw(RateLimitError)]
              /\ status' = [status EXCEPT ![c] = "rejected"]
              /\ UNCHANGED << activeScreenshots, session, incs, decs, caught >>
         ELSE IF validateUrl(u).tag = "error"
           THEN /\ pc' = [pc EXCEPT ![c] = "settled"]
                /\ result' = [result EXCEPT ![c] =
                      Throw(WrapCaptureFailed(u, validateUrl(u).err))]
                /\ status' = [status EXCEPT ![c] = "failed"]
                /\ caught' = [caught EXCEPT ![c] = validateUrl(u).err]
                /\ activeScreenshots' = ReleaseSlot(AdmitSlot(activeScreenshots))
                /\ incs' = [incs EXCEPT ![c] =
                      @ + (AdmitSlot(activeScreenshots) - activeScreenshots)]
                /\ decs' = [decs EXCEPT ![c] =
                      @ + (AdmitSlot(activeScreenshots) - activeScreenshots')]
                /\ UNCHANGED session
           ELSE /\ activeScreenshots' = AdmitSlot(activeScreenshots)
                /\ incs' = [incs EXCEPT ![c] = @ + (activeScreenshots' - activeScreenshots)]
                /\ InitializeEnter(c)
                /\ UNCHANGED << result, status, caught, decs >>
    /\ UNCHANGED << browser, maxConcurrent, selector, teardowns, closeTarget,
                    pages >>
    /\ UNCHANGED << waitVars, bodyVars, pureVars >>

\* captureElement(url, selector, options), lines 230-238: from the call to its
\* first await.  No admission check and no counter.
CaptureElementCall(c, u, sel) ==
    /\ MayArrive(c)
    /\ kind' = [kind EXCEPT ![c] = "element"]
    /\ url' = [url EXCEPT ![c] = u]
    /\ activeAtEntry' = [activeAtEntry EXCEPT ![c] = activeScreenshots]
    /\ IF validateUrl(u).tag = "error"
         THEN /\ pc' = [pc EXCEPT ![c] = "settled"]
              /\ result' = [result EXCEPT ![c] = Throw(validateUrl(u).err)]
              /\ status' = [status EXCEPT ![c] = "failed"]
              /\ UNCHANGED << session, selector >>
         ELSE IF sanitizeSelector(sel).tag = "error"
           THEN /\ pc' = [pc EXCEPT ![c] = "settled"]
                /\ result' = [result EXCEPT ![c] = Throw(sanitizeSelector(sel).err)]
                /\ status' = [status EXCEPT ![c] = "failed"]
                /\ UNCHANGED << session, selector >>
           ELSE IF sanitizeSelector(sel).tag = "null"
             THEN /\ pc' = [pc EXCEPT ![c] = "settled"]
                  /\ result' = [result EXCEPT ![c] =
                        Throw(createError("Invalid selector provided",
                                          "INVALID_SELECTOR", NoDetails))]
                  /\ status' = [status EXCEPT ![c] = "failed"]
                  /\ UNCHANGED << session, selector >>
             ELSE /\ selector' = [selector EXCEPT ![c] = sanitizeSelector(sel).value]
                  /\ InitializeEnter(c)
                  /\ UNCHANGED << result, status >>
    /\ UNCHANGED << orchestrator, caught, teardowns, closeTarget, pages,
                    counters >>
    /\ UNCHANGED << waitVars, bodyVars, pureVars >>

\* initialize() called directly, lines 17-34
InitializeCall(c) ==
    /\ MayArrive(c)
    /\ kind' = [kind EXCEPT ![c] = "initialize"]
    /\ IF browser = NoBrowser
         THEN /\ InitializeEnter(c)
              /\ UNCHANGED << result, status >>
         ELSE /\ pc' = [pc EXCEPT ![c] = "settled"]
              /\ result' = [result EXCEPT ![c] = Ok]
              /\ status' = [status EXCEPT ![c] = "ok"]
              /\ UNCHANGED session
    /\ UNCHANGED << orchestrator, url, selector, caught, teardowns, closeTarget,
                    pages, counters, activeAtEntry >>
    /\ UNCHANGED << waitVars, bodyVars, pureVars >>

\* puppeteer.launch() settles, lines 19-33: on success initialize() stores the
\* session and returns it; on failure the rejection reaches the caller.
LaunchSettles(c) ==
    /\ Quiet
    /\ pc[c] = "launch"
    /\ \/ /\ session' = [session EXCEPT ![c] = "running"]
          /\ browser' = c
          /\ IF kind[c] = "initialize"
               THEN /\ pc' = [pc EXCEPT ![c] = "settled"]
                    /\ result' = [result EXCEPT ![c] = Ok]
                    /\ status' = [status EXCEPT ![c] = "ok"]
               ELSE /\ pc' = [pc EXCEPT ![c] = "inited"]
                    /\ UNCHANGED << result, status >>
          /\ UNCHANGED << activeScreenshots, caught, decs >>
       \/ /\ session' = [session EXCEPT ![c] = "failed"]
          /\ FinishCall(c, Throw(BrowserError("launch")))
          /\ UNCHANGED browser
    /\ UNCHANGED << maxConcurrent, kind, url, selector, teardowns, closeTarget,
                    pages, incs, activeAtEntry >>
    /\ UNCHANGED << waitVars, bodyVars, pureVars >>

\* lines 54 and 239: this.browser.newPage() is called once initialize() has
\* returned; this.browser is read again, and may have been set to null.
NewPageCall(c) ==
    /\ Quiet
    /\ pc[c] = "inited"
    /\ IF browser = NoBrowser
         THEN FinishCall(c, Throw(PlainError("Cannot read properties of null")))
         ELSE /\ pc' = [pc EXCEPT ![c] = "newPage"]
              /\ UNCHANGED << activeScreenshots, caught, result, status, decs >>
    /\ UNCHANGED << browser, maxConcurrent, kind, url, selector, sessions,
                    closeTarget, pages, incs, activeAtEntry >>
    /\ UNCHANGED << waitVars, bodyVars, pureVars >>

\* newPage() settles: the page is the call's own from here on.
NewPageSettles(c) ==
    /\ Quiet
    /\ pc[c] = "newPage"
    /\ \/ /\ page' = [page EXCEPT ![c] = "open"]
          /\ pc' = [pc EXCEPT ![c] = "body"]
          /\ UNCHANGED << activeScreenshots, caught, result, status, decs >>
       \/ /\ FinishCall(c, Throw(BrowserError("newPage")))
          /\ UNCHANGED page
    /\ UNCHANGED << browser, maxConcurrent, kind, url, selector, sessions,
                    closeTarget, pageCloses, incs, activeAtEntry >>
    /\ UNCHANGED << waitVars, bodyVars, pureVars >>

\* page.close() written at the end of the try instead of in a finally.
ClosePageOnSuccessOnly(closes, outcome) ==
    IF outcome.tag = "ok" THEN closes + 1 ELSE closes

\* The inner finally (lines 139-141, 303-305): page.close() is called however
\* the body ended.
ClosePageInFinally(closes, outcome) == closes + 1

\* What leaves the inner try-finally: the body's outcome, or the rejection of
\* page.close(), which replaces it.
AfterFinally(outcome, closeOk) ==
    IF closeOk THEN outcome ELSE Throw(BrowserError("page.close"))

\* The page once the finally has run.
PageAfter(c) == IF pageCloses'[c] > pageCloses[c] THEN "closed" ELSE page[c]

\* captureScreenshot, lines 56-152: the inner try runs to its return or throw,
\* the finally closes the page, and the outer catch and finally end the call.
RunCaptureBody(c) ==
    /\ Quiet
    /\ pc[c] = "body"
    /\ kind[c] = "capture"
    /\ \E out \in CaptureOutcomes, closeOk \in BOOLEAN :
          /\ pageCloses' = [pageCloses EXCEPT ![c] = ClosePageInFinally(@, out)]
          /\ page' = [page EXCEPT ![c] = PageAfter(c)]
          /\ FinishCall(c, AfterFinally(out, closeOk))
    /\ UNCHANGED << browser, maxConcurrent, kind, url, selector, sessions,
                    closeTarget, incs, activeAtEntry >>
    /\ UNCHANGED << waitVars, bodyVars, pureVars >>

\* captureElement, lines 241-305: likewise, with no catch and no counter.
RunElementBody(c) ==
    /\ Quiet
    /\ pc[c] = "body"
    /\ kind[c] = "element"
    /\ \E out \in ElementOutcomes(selector[c]), closeOk \in BOOLEAN :
          /\ pageCloses' = [pageCloses EXCEPT ![c] = ClosePageInFinally(@, out)]
          /\ page' = [page EXCEPT ![c] = PageAfter(c)]
          /\ FinishCall(c, AfterFinally(out, closeOk))
    /\ UNCHANGED << browser, maxConcurrent, kind, url, selector, sessions,
                    closeTarget, incs, activeAtEntry >>
    /\ UNCHANGED << waitVars, bodyVars, pureVars >>

\* ------------------------------------------------------------------ close

\* close(), lines 36-38: from the call to its await
CloseCall(c) ==
    /\ MayArrive(c)
    /\ kind' = [kind EXCEPT ![c] = "close"]
    /\ IF browser # NoBrowser
         THEN /\ teardowns' = [teardowns EXCEPT ![browser] = @ + 1]
              /\ closeTarget' = [closeTarget EXCEPT ![c] = browser]
              /\ pc' = [pc EXCEPT ![c] = "teardown"]
              /\ UNCHANGED << result, status >>
         ELSE /\ pc' = [pc EXCEPT ![c] = "settled"]
              /\ result' = [result EXCEPT ![c] = Ok]
              /\ status' = [status EXCEPT ![c] = "ok"]
              /\ UNCHANGED << teardowns, closeTarget >>
    /\ UNCHANGED << orchestrator, url, selector, caught, session, pages,
                    counters, activeAtEntry >>
    /\ UNCHANGED << waitVars, bodyVars, pureVars >>

\* The handle kept after the session is closed (line 39 left out).
CloseSettlesKeepsHandle(c) ==
    /\ Quiet
    /\ pc[c] = "teardown"
    /\ \/ /\ session' = [session EXCEPT ![closeTarget[c]] = "closed"]
          /\ FinishCall(c, Ok)
          /\ UNCHANGED browser
       \/ /\ FinishCall(c, Throw(BrowserError("browser.close")))
          /\ UNCHANGED << browser, session >>
    /\ UNCHANGED << maxConcurrent, kind, url, selector, teardowns, closeTarget,
                    pages, incs, activeAtEntry >>
    /\ UNCHANGED << waitVars, bodyVars, pureVars >>

\* browser.close() settles, lines 38-39: on success the handle is set to null.
CloseSettles(c) ==
    /\ Quiet
    /\ pc[c] = "teardown"
    /\ \/ /\ session' = [session EXCEPT ![closeTarget[c]] = "closed"]
          /\ browser' = NoBrowser
          /\ FinishCall(c, Ok)
       \/ /\ FinishCall(c, Throw(BrowserError("browser.close")))
          /\ UNCHANGED << browser, session >>
    /\ UNCHANGED << maxConcurrent, kind, url, selector, teardowns, closeTarget,
                    pages, incs, activeAtEntry >>
    /\ UNCHANGED << waitVars, bodyVars, pureVars >>

\* ------------------------------------------------- the networkidle wait

\* line 204
checkInterval == 100

\* The clock is read every half poll interval.
ClockStep == checkInterval \div 2

\* The clock is followed up to here.
MaxTime == 3500

\* waitFor.timeout and waitFor.idleTime as given; 0 stands for an absent one
WaitTimeoutInputs == {0, 500, 3000}

IdleTimeInputs == {0, 200}

\* parseInt(waitFor.value); 0 stands for NaN (an absent or non-numeric value)
IdleValueInputs == {0, 500}

\* What the page under the wait does: 0 for traffic at any time, else the
\* period in ms at which it issues one request, counted from the wait's start
RequestPeriodInputs == {0, 2000}

\* A request of the page is due at time t.
RequestDue(t, start, every) ==
    every # 0 /\ t > start /\ (t - start) % every = 0

\* line 180: const { timeout = 10000 } = waitFor
TimeoutOption(t) == IF t = 0 THEN 10000 ELSE t

\* line 180: const { idleTime = 2000 } = waitFor
IdleTimeOption(i) == IF i = 0 THEN 2000 ELSE i

\* line 201: parseInt(value) || idleTime
IdleThreshold(value, idleTime) == IF value # 0 THEN value ELSE idleTime

\* The loop without its overall timeout.
LoopIterationNoTimeout(t, start, last, limit, idle) ==
    IF t - last >= idle THEN "idle" ELSE "sleep"

\* lines 217-221, one evaluation of the loop at time t: the loop condition,
\* then the idle check, then the sleep
LoopIteration(t, start, last, limit, idle) ==
    IF ~(t - start < limit) THEN "expired"
    ELSE IF t - last >= idle THEN "idle"
    ELSE "sleep"

\* How waitForCondition ends once the loop is left: in both cases the switch
\* breaks and the function returns normally.
AfterLoop(exit) == Ok

\* lines 199-221: the wait starts; the listeners are registered and the loop
\* is evaluated for the first time.
WaitStart(t, v, i, every) ==
    /\ wpc = "off"
    /\ requestEvery' = every
    /\ timeout' = TimeoutOption(t)
    /\ idleTimeMs' = IdleThreshold(v, IdleTimeOption(i))
    /\ startTime' = now
    /\ lastRequestTime' = now
    /\ everIdle' = (0 >= idleTimeMs')
    /\ IF LoopIteration(now, now, now, timeout', idleTimeMs') = "sleep"
         THEN /\ wpc' = "sleep"
              /\ wakeAt' = now + checkInterval
              /\ wresult' = wresult
         ELSE /\ wpc' = "returned"
              /\ wakeAt' = wakeAt
              /\ wresult' = AfterLoop(LoopIteration(now, now, now, timeout', idleTimeMs'))
    /\ UNCHANGED << now, mainVars, bodyVars, pureVars >>

\* Time passes while the loop sleeps, until the timer is due; a request that
\* is due is issued before the clock moves on.
Tick ==
    /\ wpc = "sleep"
    /\ now < wakeAt
    /\ RequestDue(now, startTime, requestEvery) => lastRequestTime = now
    /\ now + ClockStep <= MaxTime
    /\ now' = now + ClockStep
    /\ everIdle' = (everIdle \/ now' - lastRequestTime >= idleTimeMs)
    /\ UNCHANGED << wpc, startTime, lastRequestTime, wakeAt, timeout, idleTimeMs,
                    wresult, requestEvery, mainVars, bodyVars, pureVars >>

\* lines 207-213: a request or a response is observed
NetworkEvent ==
    /\ wpc = "sleep"
    /\ requestEvery = 0 \/ RequestDue(now, startTime, requestEvery)
    /\ lastRequestTime' = now
    /\ UNCHANGED << wpc, now, startTime, wakeAt, timeout, idleTimeMs, wresult,
                    everIdle, requestEvery, mainVars, bodyVars, pureVars >>

\* lines 217-222: the timer has fired and the loop is evaluated again
Poll ==
    /\ wpc = "sleep"
    /\ now >= wakeAt
    /\ IF LoopIteration(now, startTime, lastRequestTime, timeout, idleTimeMs) = "sleep"
         THEN /\ wakeAt' = now + checkInterval
              /\ UNCHANGED << wpc, wresult >>
         ELSE /\ wpc' = "returned"
              /\ wresult' = AfterLoop(LoopIteration(now, startTime, lastRequestTime,
                                                    timeout, idleTimeMs))
              /\ wakeAt' = wakeAt
    /\ UNCHANGED << now, startTime, lastRequestTime, timeout, idleTimeMs,
                    everIdle, requestEvery, mainVars, bodyVars, pureVars >>

NextWait ==
    \/ \E t \in WaitTimeoutInputs, v \in IdleValueInputs, i \in IdleTimeInputs,
          every \in RequestPeriodInputs :
          WaitStart(t, v, i, every)
    \/ Tick
    \/ NetworkEvent
    \/ Poll

InitWait ==
    InitMain /\ maxConcurrent = 1 /\ InitWaitVars /\ InitBodyVars /\ InitPureVars

SpecWait == InitWait /\ [][NextWait]_vars

\* ------------------------------------------- one tool call, step by step

\* The tools the handler is asked for; "take_photo" is not one it knows.
ToolNames ==
    {"capture_screenshot", "capture_element", "list_device_presets", "take_photo"}

\* options.standardDelay: absent, a boolean, or the number 0
StandardDelayInputs == {"absent", "true", "false", "0"}

\* options.delay in ms; 0 also stands for an absent delay
DelayInputs == {0, 500, -100}

\* The arguments a request carries for a tool.
ToolArgs(name) ==
    IF name = "capture_screenshot"
      THEN [url : Urls, selector : {""}, viewport : ViewportInputs,
            waitFor : WaitInputs, standardDelay : StandardDelayInputs,
            delay : DelayInputs]
    ELSE IF name = "capture_element"
      THEN [url : Urls, selector : SelectorInputs, viewport : ViewportInputs,
            waitFor : {NoWait}, standardDelay : StandardDelayInputs,
            delay : {0}]
      ELSE {NoArgs}

\* The session a launch made by the tool call is named by.
ToolSession == NumCalls + 1

\* The variables of the concurrent calls the tool call leaves alone.
otherCalls == << maxConcurrent, kind, pc, url, caught, result, status, session,
                 teardowns, closeTarget, page, pageCloses, incs, decs,
                 activeAtEntry, selector >>

\* Every error taken to the outer catch of captureScreenshot.
OuterExitAlwaysCatch == "catch"

\* Where an error thrown outside the page's try goes: captureScreenshot's
\* outer catch (line 143), or straight to the handler's (index.js line 351).
OuterExit == IF tool = "capture_screenshot" THEN "catch" ELSE "handler"

\* A value the orchestrator's method returns.
Returns(v) == [tag |-> "ok", err |-> NoError, value |-> v]

\* index.js lines 270-292, 294-298: the handler reads the request and calls
\* the orchestrator, which runs up to its first await.
HandlerCall(name, a) ==
    /\ bpc = "off"
    /\ tool' = name
    /\ args' = a
    /\ IF name = "capture_screenshot"
         THEN IF AdmissionFull(activeScreenshots, maxConcurrent)
                THEN /\ completion' = Throw(RateLimitError)
                     /\ bpc' = "handler"
                     /\ UNCHANGED << activeScreenshots, trace >>
                ELSE /\ activeScreenshots' = AdmitSlot(activeScreenshots)
                     /\ trace' = << "admit", "validateUrl" >>
                     /\ IF validateUrl(a.url).tag = "error"
                          THEN /\ completion' = Throw(validateUrl(a.url).err)
                               /\ bpc' = "catch"
                          ELSE /\ completion' = NoOutcome
                               /\ bpc' = "initialize"
       ELSE IF name = "capture_element"
         THEN /\ UNCHANGED activeScreenshots
              /\ trace' = IF validateUrl(a.url).tag = "error"
                            THEN << "validateUrl" >>
                            ELSE << "validateUrl", "sanitizeSelector" >>
              /\ IF validateUrl(a.url).tag = "error"
                   THEN /\ completion' = Throw(validateUrl(a.url).err)
                        /\ bpc' = "handler"
                 ELSE IF sanitizeSelector(a.selector).tag = "error"
                   THEN /\ completion' = Throw(sanitizeSelector(a.selector).err)
                        /\ bpc' = "handler"
                 ELSE IF sanitizeSelector(a.selector).tag = "null"
                   THEN /\ completion' = Throw(createError("Invalid selector provided",
                                                           "INVALID_SELECTOR", NoDetails))
                        /\ bpc' = "handler"
                   ELSE /\ completion' = NoOutcome
                        /\ bpc' = "initialize"
       ELSE IF name = "list_device_presets"
         THEN /\ completion' = Returns(DEVICE_PRESETS)
              /\ bpc' = "handler"
              /\ UNCHANGED << activeScreenshots, trace >>
         ELSE /\ completion' = Throw(PlainError("Unknown tool: " \o name))
              /\ bpc' = "handler"
              /\ UNCHANGED << activeScreenshots, trace >>
    /\ UNCHANGED << browser, otherCalls, pageViewport, pageUserAgent,
                    screenshotBuffer, metadata, response, waitVars, pureVars >>

\* initialize(), lines 17-34: launch a browser unless one is held
ToolInitialize(fails) ==
    /\ bpc = "initialize"
    /\ IF browser # NoBrowser
         THEN /\ trace' = Append(trace, "initialize")
              /\ bpc' = "newPage"
              /\ UNCHANGED << browser, completion >>
         ELSE /\ trace' = trace \o << "initialize", "launch" >>
              /\ IF fails
                   THEN /\ completion' = Throw(BrowserError("launch"))
                        /\ bpc' = OuterExit
                        /\ UNCHANGED browser
                   ELSE /\ browser' = ToolSession
                        /\ bpc' = "newPage"
                        /\ UNCHANGED completion
    /\ UNCHANGED << activeScreenshots, otherCalls, tool, args, pageViewport,
                    pageUserAgent, screenshotBuffer, metadata, response,
                    waitVars, pureVars >>

\* lines 54, 239: const page = await this.browser.newPage()
ToolNewPage(fails) ==
    /\ bpc = "newPage"
    /\ trace' = Append(trace, IF fails THEN "newPage rejected" ELSE "newPage")
    /\ IF fails
         THEN /\ completion' = Throw(BrowserError("newPage"))
              /\ bpc' = OuterExit
         ELSE /\ bpc' = "configure"
              /\ UNCHANGED completion
    /\ UNCHANGED << browser, activeScreenshots, otherCalls, tool, args,
                    pageViewport, pageUserAgent, screenshotBuffer, metadata,
                    response, waitVars, pureVars >>

\* configureViewport, lines 154-177, with browser operation `f` rejecting
ConfigureViewport(f) ==
    /\ bpc = "configure"
    /\ LET viewport == ResolveViewport(args.viewport)
       IN  IF validateViewport(viewport).tag = "error"
             THEN /\ completion' = validateViewport(viewport)
                  /\ bpc' = "finally"
                  /\ UNCHANGED << trace, pageViewport, pageUserAgent >>
           ELSE IF f = "setViewport"
             THEN /\ trace' = Append(trace, "setViewport")
                  /\ pageViewport' = viewport
                  /\ completion' = Throw(BrowserError("setViewport"))
                  /\ bpc' = "finally"
                  /\ UNCHANGED pageUserAgent
           ELSE IF viewport.userAgent = ""
             THEN /\ trace' = Append(trace, "setViewport")
                  /\ pageViewport' = viewport
                  /\ bpc' = "goto"
                  /\ UNCHANGED << pageUserAgent, completion >>
             ELSE /\ trace' = trace \o << "setViewport", "setUserAgent" >>
                  /\ pageViewport' = viewport
                  /\ pageUserAgent' = viewport.userAgent
                  /\ IF f = "setUserAgent"
                       THEN /\ completion' = Throw(BrowserError("setUserAgent"))
                            /\ bpc' = "finally"
                       ELSE /\ bpc' = "goto"
                            /\ UNCHANGED completion
    /\ UNCHANGED << browser, activeScreenshots, otherCalls, tool, args,
                    screenshotBuffer, metadata, response, waitVars, pureVars >>

\* lines 60-68, 243: captureScreenshot sets the page's default timeouts; then
\* await page.goto(validatedUrl, ...)
Goto(fails) ==
    /\ bpc = "goto"
    /\ trace' = IF tool = "capture_screenshot"
                  THEN trace \o << "setDefaultTimeout", "goto" >>
                  ELSE Append(trace, "goto")
    /\ IF fails
         THEN /\ completion' = Throw(BrowserError("goto"))
              /\ bpc' = "finally"
         ELSE /\ bpc' = IF tool = "capture_screenshot" THEN "waitFor" ELSE "stability"
              /\ UNCHANGED completion
    /\ UNCHANGED << browser, activeScreenshots, otherCalls, tool, args,
                    pageViewport, pageUserAgent, screenshotBuffer, metadata,
                    response, waitVars, pureVars >>

\* lines 71-73: if (options.waitFor) await this.waitForCondition(...)
WaitFor(f) ==
    /\ bpc = "waitFor"
    /\ IF args.waitFor.type = ""
         THEN /\ bpc' = "stability"
              /\ UNCHANGED << trace, completion >>
       ELSE IF waitForCondition(args.waitFor, f).tag = "error"
         THEN /\ completion' = waitForCondition(args.waitFor, f)
              /\ bpc' = "finally"
              /\ UNCHANGED trace
         ELSE /\ trace' = Append(trace, "waitFor")
              /\ bpc' = "stability"
              /\ UNCHANGED completion
    /\ UNCHANGED << browser, activeScreenshots, otherCalls, tool, args,
                    pageViewport, pageUserAgent, screenshotBuffer, metadata,
                    response, waitVars, pureVars >>

\* lines 76, 246: options.standardDelay !== false ? 2500 : 0
StandardDelayMs(option) == IF option # "false" THEN 2500 ELSE 0

\* lines 76-79, 246-249: the stability delay
StabilityDelay ==
    /\ bpc = "stability"
    /\ trace' = IF StandardDelayMs(args.standardDelay) > 0
                  THEN Append(trace, "sleep standardDelay")
                  ELSE trace
    /\ bpc' = IF tool = "capture_screenshot" THEN "delay" ELSE "query"
    /\ UNCHANGED << browser, activeScreenshots, otherCalls, tool, args,
                    pageViewport, pageUserAgent, screenshotBuffer, metadata,
                    completion, response, waitVars, pureVars >>

\* The additional delay never taken.
DelayNever(delay) == FALSE

\* line 82: if (options.delay)
DelayGiven(delay) == delay # 0

\* lines 82-84: the additional delay
ExplicitDelay ==
    /\ bpc = "delay"
    /\ trace' = IF DelayGiven(args.delay)
                  THEN Append(trace, "sleep delay")
                  ELSE trace
    /\ bpc' = "screenshot"
    /\ UNCHANGED << browser, activeScreenshots, otherCalls, tool, args,
                    pageViewport, pageUserAgent, screenshotBuffer, metadata,
                    completion, response, waitVars, pureVars >>

\* lines 251-254: page.$(validatedSelector), which finds an element or not
QueryElement(present, fails) ==
    /\ bpc = "query"
    /\ trace' = IF ~fails /\ ~present
                  THEN trace \o << "query", "no element" >>
                  ELSE Append(trace, "query")
    /\ IF fails
         THEN /\ completion' = Throw(BrowserError("query"))
              /\ bpc' = "finally"
       ELSE IF ~present
         THEN /\ completion' =
                    Throw(createError("Element not found: "
                                          \o sanitizeSelector(args.selector).value,
                                      "ELEMENT_NOT_FOUND", NoDetails))
              /\ bpc' = "finally"
         ELSE /\ bpc' = "screenshot"
              /\ UNCHANGED completion
    /\ UNCHANGED << browser, activeScreenshots, otherCalls, tool, args,
                    pageViewport, pageUserAgent, screenshotBuffer, metadata,
                    response, waitVars, pureVars >>

\* lines 87-98, 257-263: the screenshot is taken and decoded; the browser
\* returns an image of some size
TakeScreenshot(img, fails) ==
    /\ bpc = "screenshot"
    /\ trace' = Append(trace, "screenshot")
    /\ IF fails
         THEN /\ completion' = Throw(BrowserError("screenshot"))
              /\ bpc' = "finally"
              /\ UNCHANGED screenshotBuffer
         ELSE /\ screenshotBuffer' =
                    [width |-> img[1], height |-> img[2], bytes |-> "browser"]
              /\ bpc' = "metadata"
              /\ UNCHANGED completion
    /\ UNCHANGED << browser, activeScreenshots, otherCalls, tool, args,
                    pageViewport, pageUserAgent, metadata, response,
                    waitVars, pureVars >>

\* lines 100-104, 265-269: metadata = await sharp(screenshotBuffer).metadata()
ReadMetadata(fails) ==
    /\ bpc = "metadata"
    /\ IF fails
         THEN /\ completion' =
                    Throw(createError(
                        IF tool = "capture_screenshot"
                          THEN "Failed to read screenshot metadata"
                          ELSE "Failed to read element screenshot metadata",
                        "IMAGE_METADATA_ERROR",
                        [url |-> "", originalError |-> "metadata failed"]))
              /\ bpc' = "finally"
              /\ UNCHANGED metadata
         ELSE /\ metadata' = [width |-> screenshotBuffer.width,
                              height |-> screenshotBuffer.height]
              /\ bpc' = "resize"
              /\ UNCHANGED completion
    /\ UNCHANGED << browser, activeScreenshots, otherCalls, tool, args, trace,
                    pageViewport, pageUserAgent, screenshotBuffer, response,
                    waitVars, pureVars >>

\* lines 107-121, 272-286: the buffer after the size check, re-encoded by
\* sharp at the new size where a side exceeds maxDimension
Normalize(buffer, meta) ==
    IF NeedsResize(<< meta.width, meta.height >>)
      THEN [width |-> NewSize(<< meta.width, meta.height >>)[1],
            height |-> NewSize(<< meta.width, meta.height >>)[2],
            bytes |-> "sharp"]
      ELSE buffer

\* lines 107-121, 272-286, with sharp's resize rejecting or not
ResizeIfNeeded(fails) ==
    /\ bpc = "resize"
    /\ IF ~NeedsResize(<< metadata.width, metadata.height >>)
         THEN /\ bpc' = "build"
              /\ UNCHANGED << trace, screenshotBuffer, completion >>
         ELSE /\ trace' = Append(trace, "resize")
              /\ IF fails
                   THEN /\ completion' =
                              Throw(createError(
                                  IF tool = "capture_screenshot"
                                    THEN "Failed to resize screenshot image"
                                    ELSE "Failed to resize element screenshot image",
                                  "IMAGE_RESIZE_ERROR",
                                  [url |-> "", originalError |-> "resize failed"]))
                        /\ bpc' = "finally"
                        /\ UNCHANGED screenshotBuffer
                   ELSE /\ screenshotBuffer' = Normalize(screenshotBuffer, metadata)
                        /\ bpc' = "build"
                        /\ UNCHANGED completion
    /\ UNCHANGED << browser, activeScreenshots, otherCalls, tool, args,
                    pageViewport, pageUserAgent, metadata, response,
                    waitVars, pureVars >>

\* lines 126-137, 291-301: the value returned
CaptureResult ==
    [success |-> TRUE,
     data |-> screenshotBuffer,
     metadata |-> [url |-> validateUrl(args.url).href,
                   selector |-> IF tool = "capture_element"
                                  THEN sanitizeSelector(args.selector).value
                                  ELSE "",
                   viewport |-> IF tool = "capture_screenshot"
                                  THEN pageViewport
                                  ELSE SpreadOfInherited,
                   imageWidth |-> metadata.width,
                   imageHeight |-> metadata.height]]

\* lines 124-137, 289-301: the result is built; captureScreenshot awaits
\* page.viewport() and page.title() for it
BuildResult(f) ==
    /\ bpc = "build"
    /\ IF tool = "capture_screenshot" /\ f \in {"viewport", "title"}
         THEN completion' = Throw(BrowserError(f))
         ELSE completion' = Returns(CaptureResult)
    /\ trace' = Append(trace, "build metadata")
    /\ bpc' = "finally"
    /\ UNCHANGED << browser, activeScreenshots, otherCalls, tool, args,
                    pageViewport, pageUserAgent, screenshotBuffer, metadata,
                    response, waitVars, pureVars >>

\* lines 139-141, 303-305: finally { await page.close() }; an error of
\* page.close() replaces the completion of the try
ClosePage(fails) ==
    /\ bpc = "finally"
    /\ trace' = Append(trace, "close")
    /\ completion' = IF fails THEN Throw(BrowserError("close")) ELSE completion
    /\ bpc' = OuterExit
    /\ UNCHANGED << browser, activeScreenshots, otherCalls, tool, args,
                    pageViewport, pageUserAgent, screenshotBuffer, metadata,
                    response, waitVars, pureVars >>

\* lines 143-151: captureScreenshot's outer catch and finally
CatchAndRelease ==
    /\ bpc = "catch"
    /\ completion' = IF completion.tag = "error"
                       THEN Throw(WrapCaptureFailed(args.url, completion.err))
                       ELSE completion
    /\ activeScreenshots' = ReleaseSlot(activeScreenshots)
    /\ trace' = Append(trace, "release")
    /\ bpc' = "handler"
    /\ UNCHANGED << browser, otherCalls, tool, args, pageViewport,
                    pageUserAgent, screenshotBuffer, metadata, response,
                    waitVars, pureVars >>

\* index.js lines 283-298, 306-320, 322-343: the response of a tool that
\* returned `value`
SuccessResponse(name, a, value) ==
    IF name = "list_device_presets"
      THEN [isError |-> FALSE,
            content |-> << [type |-> "text", text |-> "Available device presets:"] >>]
      ELSE [isError |-> FALSE,
            content |->
              << [type |-> "text",
                  text |-> IF name = "capture_screenshot"
                             THEN "Screenshot captured successfully from " \o a.url
                             ELSE "Element screenshot captured from " \o a.url
                                  \o " (selector: " \o a.selector \o ")"],
                 [type |-> "image", data |-> value.data, mimeType |-> "image/png"],
                 [type |-> "text", text |-> "Metadata: ..."] >>]

\* The error text returned without the error flag.
ErrorResponseUnflagged(error) ==
    [isError |-> FALSE,
     content |-> << [type |-> "text", text |-> "Error: " \o error.message] >>]

\* index.js lines 351-360: the response the catch block builds
ErrorResponse(error) ==
    [isError |-> TRUE,
     content |-> << [type |-> "text", text |-> "Error: " \o error.message] >>]

\* index.js lines 283-298, 306-320, 322-343, 351-360: the handler returns
HandlerReturn ==
    /\ bpc = "handler"
    /\ response' = IF completion.tag = "error"
                     THEN ErrorResponse(completion.err)
                     ELSE SuccessResponse(tool, args, completion.value)
    /\ bpc' = "done"
    /\ UNCHANGED << mainVars, tool, args, trace, pageViewport, pageUserAgent,
                    screenshotBuffer, metadata, completion, waitVars, pureVars >>

NextBody ==
    \/ \E name \in ToolNames : \E a \in ToolArgs(name) : HandlerCall(name, a)
    \/ \E fails \in BOOLEAN : ToolInitialize(fails)
    \/ \E fails \in BOOLEAN : ToolNewPage(fails)
    \/ \E f \in {"none", "setViewport", "setUserAgent"} : ConfigureViewport(f)
    \/ \E fails \in BOOLEAN : Goto(fails)
    \/ \E f \in {"none", "waitFor"} : WaitFor(f)
    \/ StabilityDelay
    \/ ExplicitDelay
    \/ \E present \in BOOLEAN, fails \in BOOLEAN : QueryElement(present, fails)
    \/ \E img \in ImageSizes, fails \in BOOLEAN : TakeScreenshot(img, fails)
    \/ \E fails \in BOOLEAN : ReadMetadata(fails)
    \/ \E fails \in BOOLEAN : ResizeIfNeeded(fails)
    \/ \E f \in {"none", "viewport", "title"} : BuildResult(f)
    \/ \E fails \in BOOLEAN : ClosePage(fails)
    \/ CatchAndRelease
    \/ HandlerReturn

\* The tool call arrives at an idle orchestrator.
IdleOrchestrator == InitMain /\ maxConcurrent = 1

\* The tool call arrives while a full-page capture (call 1) is suspended in
\* its body, holding the only slot.
BusyOrchestrator ==
    /\ browser = 1
    /\ activeScreenshots = 1
    /\ maxConcurrent = 1
    /\ kind = [c \in Calls |-> IF c = 1 THEN "capture" ELSE ""]
    /\ pc = [c \in Calls |-> IF c = 1 THEN "body" ELSE "idle"]
    /\ url = [c \in Calls |-> IF c = 1 THEN "https://a.test" ELSE ""]
    /\ selector = [c \in Calls |-> ""]
    /\ caught = [c \in Calls |-> NoError]
    /\ result = [c \in Calls |-> NoOutcome]
    /\ status = [c \in Calls |-> ""]
    /\ session = [c \in Calls |-> IF c = 1 THEN "running" ELSE "none"]
    /\ teardowns = [c \in Calls |-> 0]
    /\ closeTarget = [c \in Calls |-> NoBrowser]
    /\ page = [c \in Calls |-> IF c = 1 THEN "open" ELSE "none"]
    /\ pageCloses = [c \in Calls |-> 0]
    /\ incs = [c \in Calls |-> IF c = 1 THEN 1 ELSE 0]
    /\ decs = [c \in Calls |-> 0]
    /\ activeAtEntry = [c \in Calls |-> 0]

InitBody ==
    /\ IdleOrchestrator \/ BusyOrchestrator
    /\ InitWaitVars
    /\ InitBodyVars
    /\ InitPureVars

SpecBody == InitBody /\ [][NextBody]_vars

\* ------------------------------------- utils.js functions called directly

\* Widths and heights a caller passes to validateViewport, all of them given
DimensionInputs == {-100, 0, 50, 99, 100, 101, 2500, 4999, 5000, 5001}

\* validateViewport({ width, height }) is called
CallValidateViewport(width, height) ==
    /\ fn' = "validateViewport"
    /\ input' = [NoViewport EXCEPT !.width = width, !.height = height]
    /\ output' = validateViewport(input')
    /\ UNCHANGED << mainVars, waitVars, bodyVars >>

NextPure ==
    \E width \in DimensionInputs, height \in DimensionInputs :
        CallValidateViewport(width, height)

SpecPure == Init /\ [][NextPure]_vars

\* ---------------------------------------------------------- specification

Next ==
    \E c \in Calls :
        \/ \E u \in Urls : CaptureScreenshotCall(c, u)
        \/ \E u \in Urls, sel \in SelectorInputs : CaptureElementCall(c, u, sel)
        \/ InitializeCall(c)
        \/ CloseCall(c)
        \/ LaunchSettles(c)
        \/ NewPageCall(c)
        \/ NewPageSettles(c)
        \/ RunCaptureBody(c)
        \/ RunElementBody(c)
        \/ CloseSettles(c)
        \/ Observe(c)

Spec == Init /\ [][Next]_vars

\* Concurrent captureScreenshot calls, each body one step that returns; or,
\* in place of them, the networkidle loop that a body waits in.
NextCaptures ==
    \/ \E c \in Calls :
        \/ wpc = "off" /\ \E u \in Urls : CaptureScreenshotCall(c, u)
        \/ LaunchSettles(c)
        \/ NewPageCall(c)
        \/ NewPageSettles(c)
        \/ RunCaptureBody(c)
        \/ Observe(c)
    \/ /\ \A c \in Calls : pc[c] = "idle"
       /\ \E t \in WaitTimeoutInputs, v \in IdleValueInputs, i \in IdleTimeInputs,
             every \in RequestPeriodInputs :
             WaitStart(t, v, i, every)
    \/ Tick
    \/ NetworkEvent
    \/ Poll

\* Every awaited browser operation eventually returns or fails, and every
\* settled promise eventually resumes its caller; calls need not arrive.
BrowserOperationsReturn ==
    \A c \in Calls :
        /\ WF_vars(LaunchSettles(c))
        /\ WF_vars(NewPageCall(c))
        /\ WF_vars(NewPageSettles(c))
        /\ WF_vars(RunCaptureBody(c))
        /\ WF_vars(Observe(c))

\* Time passes, timers fire, and the page's requests are issued when due.
TimePasses == WF_vars(Tick) /\ WF_vars(Poll) /\ WF_vars(NetworkEvent)

SpecLive ==
    Init /\ [][NextCaptures]_vars /\ BrowserOperationsReturn /\ TimePasses

\* Calls made one after the other: a call arrives only when every earlier
\* one has settled and been observed.
Sequential == \A d \in Calls : pc[d] \in {"idle", "done"}

NextSeq ==
    \E c \in Calls :
        \/ Sequential /\ \E u \in Urls : CaptureScreenshotCall(c, u)
        \/ Sequential /\ \E u \in Urls, sel \in SelectorInputs :
                            CaptureElementCall(c, u, sel)
        \/ Sequential /\ InitializeCall(c)
        \/ Sequential /\ CloseCall(c)
        \/ LaunchSettles(c)
        \/ NewPageCall(c)
        \/ NewPageSettles(c)
        \/ RunCaptureBody(c)
        \/ RunElementBody(c)
        \/ CloseSettles(c)
        \/ Observe(c)

SpecSeq == Init /\ [][NextSeq]_vars

\* ------------------------------------------------------------ properties

InFlight(c) == pc[c] \in {"launch", "inited", "newPage", "body"}

Complete(c) == pc[c] \in {"settled", "done"}

CapturesInFlight == { c \in Calls : kind[c] = "capture" /\ InFlight(c) }

\* C1: in every reachable state, under any interleaving of captureScreenshot
\* calls, activeScreenshots lies between 0 and maxConcurrent inclusive.
C1_CounterWithinCeiling ==
    /\ activeScreenshots >= 0
    /\ activeScreenshots <= maxConcurrent

\* The ceiling is reached with two captures in flight and a third call has
\* been turned away.
C1_Witness ==
    /\ maxConcurrent = 2
    /\ activeScreenshots = maxConcurrent
    /\ \E c \in Calls : status[c] = "rejected"

\* C2: every admitted captureScreenshot call decrements activeScreenshots
\* exactly once, however it ends, and a rejected call never does; the counter
\* equals the number of captures in flight, so it is 0 when none is.
C2_ReleasedExactlyOnce ==
    /\ \A c \in Calls :
          kind[c] = "capture" =>
            /\ InFlight(c) => incs[c] = 1 /\ decs[c] = 0
            /\ Complete(c) /\ status[c] = "rejected" => incs[c] = 0 /\ decs[c] = 0
            /\ Complete(c) /\ status[c] # "rejected" => incs[c] = 1 /\ decs[c] = 1
    /\ activeScreenshots = Cardinality(CapturesInFlight)
    /\ CapturesInFlight = {} => activeScreenshots = 0

\* One capture has returned a result, one has thrown after it had its page,
\* one was rejected, and none is in flight.
C2_Witness ==
    /\ CapturesInFlight = {}
    /\ \E c \in Calls : kind[c] = "capture" /\ status[c] = "ok" /\ decs[c] = 1
    /\ \E c \in Calls : /\ kind[c] = "capture" /\ status[c] = "failed"
                        /\ page[c] = "closed" /\ decs[c] = 1
    /\ \E c \in Calls : kind[c] = "capture" /\ status[c] = "rejected"

\* The calls of a burst: maxConcurrent + 1 of them.
Burst == 1 .. (maxConcurrent + 1)

Min(a, b) == IF a <= b THEN a ELSE b

\* The first maxConcurrent + 1 calls are captures, and each arrived while every
\* capture admitted before it was still in flight.
Simultaneous ==
    /\ Burst \subseteq Calls
    /\ \A c \in Burst :
          kind[c] = "capture" /\ activeAtEntry[c] = Min(c - 1, maxConcurrent)

\* C3: of maxConcurrent + 1 simultaneous captures none of which meets a
\* failure, exactly one fails with RATE_LIMIT_EXCEEDED and exactly
\* maxConcurrent succeed; once no capture is in flight the counter is 0.
C3_BurstAdmitsCeiling ==
    ( /\ Simultaneous
      /\ \A c \in Burst : Complete(c) /\ status[c] # "failed" )
    =>
    /\ Cardinality({ c \in Burst : status[c] = "rejected" }) = 1
    /\ Cardinality({ c \in Burst : status[c] = "ok" }) = maxConcurrent
    /\ \A c \in Burst :
          pc[c] = "settled" /\ status[c] = "rejected"
            => result[c].err.code = "RATE_LIMIT_EXCEEDED"
    /\ CapturesInFlight = {} => activeScreenshots = 0

\* A burst of three with a ceiling of two has run to its end.
C3_Witness ==
    /\ maxConcurrent = 2
    /\ Simultaneous
    /\ \A c \in Burst : pc[c] = "done" /\ status[c] # "failed"

\* C4: a captureScreenshot call that finds activeScreenshots >= maxConcurrent
\* settles in the same step with RATE_LIMIT_EXCEEDED, unwrapped, and changes
\* neither the counter nor the session nor any page.
C4_RejectionImmediate ==
    [][ \A c \in Calls :
          ( /\ pc[c] = "idle"
            /\ kind'[c] = "capture"
            /\ activeScreenshots >= maxConcurrent )
          =>
          /\ pc'[c] = "settled"
          /\ result'[c].tag = "error"
          /\ result'[c].err.code = "RATE_LIMIT_EXCEEDED"
          /\ UNCHANGED << browser, activeScreenshots, session, teardowns, page,
                          pageCloses, incs, decs >> ]_vars

\* A call has been rejected at the ceiling.
C4_Witness ==
    \E c \in Calls :
        /\ kind[c] = "capture"
        /\ pc[c] = "settled"
        /\ activeAtEntry[c] = maxConcurrent
        /\ result[c].err.code = "RATE_LIMIT_EXCEEDED"

\* C5: the browser engine is never launched a second time while a launch is
\* pending or a launched session is running.
C5_SingleLaunch ==
    Cardinality({ s \in Calls : session[s] \in {"launching", "running"} }) <= 1

\* C6: a page is open only while the call that created it runs its body; it
\* has been closed, by exactly one page.close(), when that call settles,
\* however the body ended; a call that never had a page closes none.
C6_PageClosedExactlyOnce ==
    \A c \in Calls :
        /\ pageCloses[c] <= 1
        /\ page[c] = "open" <=> pc[c] = "body"
        /\ page[c] = "open" => kind[c] \in {"capture", "element"} /\ pageCloses[c] = 0
        /\ Complete(c) => /\ page[c] \in {"none", "closed"}
                          /\ page[c] = "closed" <=> pageCloses[c] = 1

\* An element capture has failed with ELEMENT_NOT_FOUND and a full-page
\* capture has failed in its body; the page of each has been closed.
C6_Witness ==
    /\ \E c \in Calls :
          /\ kind[c] = "element" /\ pc[c] = "settled"
          /\ result[c].err.code = "ELEMENT_NOT_FOUND"
          /\ page[c] = "closed" /\ pageCloses[c] = 1
    /\ \E c \in Calls :
          /\ kind[c] = "capture" /\ pc[c] = "done" /\ status[c] = "failed"
          /\ page[c] = "closed" /\ pageCloses[c] = 1

\* C7: a failure of an admitted captureScreenshot call reaches the caller as
\* one CAPTURE_FAILED error whose details carry the url argument and the
\* message of the error that was caught; when the caller sees it the page, if
\* one was acquired, is closed and the slot has been released.
C7_FailureWrappedAfterCleanup ==
    \A c \in Calls :
        ( kind[c] = "capture" /\ pc[c] = "settled" /\ status[c] = "failed" )
        =>
        /\ result[c].tag = "error"
        /\ result[c].err.code = "CAPTURE_FAILED"
        /\ result[c].err.details.url = url[c]
        /\ caught[c].message # ""
        /\ result[c].err.details.originalError = caught[c].message
        /\ page[c] # "open"
        /\ page[c] = "closed" <=> pageCloses[c] = 1
        /\ incs[c] = 1 /\ decs[c] = 1
        /\ c \notin CapturesInFlight
        /\ activeScreenshots = Cardinality(CapturesInFlight)

\* A capture whose image could not be read has failed: its caller sees
\* CAPTURE_FAILED with the page closed, while another capture is in flight.
C7_Witness ==
    \E c \in Calls :
        /\ kind[c] = "capture" /\ pc[c] = "settled"
        /\ caught[c].code = "IMAGE_METADATA_ERROR"
        /\ result[c].err.code = "CAPTURE_FAILED"
        /\ result[c].err.details.url = "https://a.test"
        /\ page[c] = "closed"
        /\ activeScreenshots = 1

\* The close() calls that tore session s down and returned normally.
ClosedBy(s) ==
    { c \in Calls : kind[c] = "close" /\ closeTarget[c] = s /\ status[c] = "ok" }

\* The close() calls that found session s and called its teardown.
ClosersOf(s) == { c \in Calls : kind[c] = "close" /\ closeTarget[c] = s }

\* C8: over close() calls that do not overlap: a close() that finds no session
\* tears nothing down and does not fail; a close() that finds one calls its
\* teardown once and, returning normally, leaves the handle empty; once a
\* close() of a session has returned normally no later close() tears that
\* session down again.
C8_CloseIdempotent ==
    /\ \A c \in Calls :
          ( kind[c] = "close" /\ Complete(c) /\ closeTarget[c] = NoBrowser )
            => status[c] = "ok"
    /\ \A c \in Calls :
          ( kind[c] = "close" /\ pc[c] = "settled" /\ status[c] = "ok" )
            => browser = NoBrowser
    /\ \A s \in Calls :
          /\ teardowns[s] = Cardinality(ClosersOf(s))
          /\ Cardinality(ClosedBy(s)) <= 1
          /\ session[s] = "closed" <=> ClosedBy(s) # {}
          /\ \A c \in ClosedBy(s) : \A d \in ClosersOf(s) : d <= c

\* A session was started, a first close() tore it down, and a second close()
\* found nothing to do.
C8_Witness ==
    \E s, c1, c2 \in Calls :
        /\ session[s] = "closed" /\ teardowns[s] = 1
        /\ kind[c1] = "close" /\ closeTarget[c1] = s /\ status[c1] = "ok"
        /\ kind[c2] = "close" /\ closeTarget[c2] = NoBrowser
        /\ pc[c2] = "settled" /\ status[c2] = "ok"
        /\ browser = NoBrowser

\* C9: captureElement neither reads nor changes activeScreenshots: no step of
\* an element capture changes the counter, an element capture is never
\* rejected for the ceiling, and a captureScreenshot call is rejected only
\* when maxConcurrent full-page captures are in flight, whatever element
\* captures are.
C9_ElementBypassesGate ==
    /\ [](\A c \in Calls :
            kind[c] = "element" =>
              /\ incs[c] = 0 /\ decs[c] = 0
              /\ status[c] # "rejected"
              /\ result[c].err.code # "RATE_LIMIT_EXCEEDED")
    /\ [][ \A c \in Calls :
             /\ ( kind'[c] = "element" /\ pc'[c] # pc[c] )
                  => activeScreenshots' = activeScreenshots
             /\ ( pc[c] = "idle" /\ kind'[c] = "element" /\ validateUrl(url'[c]).tag = "ok"
                  /\ sanitizeSelector(selector'[c]).tag = "ok" /\ selector'[c] # "" )
                  => InFlight(c)'
             /\ ( pc[c] = "idle" /\ status'[c] = "rejected" )
                  => Cardinality(CapturesInFlight) >= maxConcurrent ]_vars

\* Two element captures hold pages at once, both admitted while the counter
\* stood at the ceiling, with a full-page capture in flight.
C9_Witness ==
    \E c, d, e \in Calls :
        /\ c # d
        /\ kind[c] = "element" /\ pc[c] = "body" /\ activeAtEntry[c] = maxConcurrent
        /\ kind[d] = "element" /\ pc[d] = "body" /\ activeAtEntry[d] = maxConcurrent
        /\ kind[e] = "capture" /\ InFlight(e)

\* C10: a networkidle wait whose timeout elapses before the time since the
\* last request or response has ever reached the idle threshold fails with a
\* Timeout error.
C10_TimeoutFails ==
    ( wpc = "returned" /\ ~everIdle ) => wresult.tag = "error"

\* C11: a networkidle wait with idle threshold 500 ms and timeout 3000 ms, on
\* a page that issues one request every 2000 ms, never sees the idle
\* condition satisfied and ends with a Timeout error.
C11_PeriodicTrafficTimesOut ==
    ( /\ wpc = "returned"
      /\ timeout = 3000
      /\ idleTimeMs = 500
      /\ requestEvery = 2000 )
        => ( wresult.tag = "error" /\ now - lastRequestTime < idleTimeMs )

\* C12: the networkidle wait never succeeds at a poll where less than the
\* idle threshold has elapsed since the latest request or response.
C12_SucceedsOnlyWhenIdle ==
    ( wpc = "returned" /\ wresult.tag = "ok" )
        => now - lastRequestTime >= idleTimeMs

\* The operation is among those the tool call has performed.
Performed(op) == op \in { trace[i] : i \in 1 .. Len(trace) }

C14_SelectorErrorsByCode ==
    ( /\ tool = "capture_element"
      /\ bpc \in {"handler", "done"}
      /\ validateUrl(args.url).tag = "ok" )
        => /\ args.selector = ""
                => ( completion.tag = "error"
                     /\ completion.err.code = "INVALID_SELECTOR" )
           /\ Dangerous(args.selector)
                => ( completion.tag = "error"
                     /\ completion.err.code \notin {"", "INVALID_SELECTOR"} )

\* Operation `a` was performed, and before every later `b`.
Before(a, b) ==
    \A i, j \in 1 .. Len(trace) : (trace[i] = b /\ trace[j] = a) => j < i

\* C15: once a capture has reached its screenshot, the 2500 ms stability
\* delay was waited, after the navigation, exactly if standardDelay is not
\* false; in captureScreenshot the explicit delay was waited, after the
\* stability delay, exactly if delay is present and positive.
C15_DelaysApplied ==
    Performed("screenshot")
        => /\ Performed("sleep standardDelay") <=> args.standardDelay # "false"
           /\ Before("goto", "sleep standardDelay")
           /\ tool = "capture_screenshot"
                => /\ Performed("sleep delay") <=> args.delay > 0
                   /\ Before("sleep standardDelay", "sleep delay")

\* The viewport the request's explicit fields give, with the defaults.
ExplicitViewport(cfg) ==
    [width |-> IF cfg.width # 0 THEN cfg.width ELSE 1920,
     height |-> IF cfg.height # 0 THEN cfg.height ELSE 1080,
     deviceScaleFactor |->
         IF cfg.deviceScaleFactor # 0 THEN cfg.deviceScaleFactor ELSE 1,
     isMobile |-> cfg.isMobile,
     hasTouch |-> cfg.hasTouch,
     userAgent |-> cfg.userAgent]

\* C16: the viewport handed to the page is the named preset's configuration
\* when preset is mobile, tablet or desktop, whatever the explicit fields
\* say, and else the explicit fields with their defaults; the user-agent is
\* set only if the viewport has one, and after the viewport.
C16_ViewportResolved ==
    Performed("setViewport")
        => /\ args.viewport.preset \in {"mobile", "tablet", "desktop"}
                => pageViewport = DEVICE_PRESETS[args.viewport.preset]
           /\ args.viewport.preset = "mobile"
                => pageViewport =
                     [width |-> 375, height |-> 667, deviceScaleFactor |-> 2,
                      isMobile |-> TRUE, hasTouch |-> TRUE, userAgent |-> "iPhone"]
           /\ args.viewport.preset \notin {"mobile", "tablet", "desktop"}
                => pageViewport = ExplicitViewport(args.viewport)
           /\ Performed("setUserAgent")
                => ( pageViewport.userAgent # ""
                     /\ pageUserAgent = pageViewport.userAgent )
           /\ Before("setViewport", "setUserAgent")

\* C17: validateViewport fails exactly when the width or the height it is
\* given (0 and negative values included) lies outside 100 .. 5000, the
\* boundaries being accepted; when both lie outside, its one error reports
\* both.
C17_OutOfRangeRejected ==
    fn = "validateViewport"
        => /\ output.tag = "error"
                <=> ( input.width \notin 100 .. 5000
                      \/ input.height \notin 100 .. 5000 )
           /\ ( input.width \notin 100 .. 5000
                /\ input.height \notin 100 .. 5000 )
                => output.err.message
                     = "Width must be between 100 and 5000 pixels" \o ", "
                         \o "Height must be between 100 and 5000 pixels"

\* floor(d * min(8000/w, 8000/h)) in exact arithmetic
ExactFloor(d, w, h) == (d * 8000) \div Max(w, h)

\* The buffer is the image of w by h re-encoded at floor(w*s) by floor(h*s),
\* s = min(8000/w, 8000/h), in exact arithmetic.
C18_ExactResize ==
    ( bpc = "build" /\ (metadata.width > 8000 \/ metadata.height > 8000) )
        => /\ screenshotBuffer.width
                = ExactFloor(metadata.width, metadata.width, metadata.height)
           /\ screenshotBuffer.height
                = ExactFloor(metadata.height, metadata.width, metadata.height)

\* C18: after the size check, an image within 8000 x 8000 is the buffer the
\* browser returned, unchanged; a larger one is re-encoded with both sides
\* scaled by 8000 over the larger side and floored, each coming out as the
\* exact floor or, by the rounding of the double product, one below it; both
\* sides are at most 8000, 16000 x 8000 becomes exactly 8000 x 4000, and
\* normalizing the result again changes nothing.
C18_ResizeNormalization ==
    bpc = "build"
        => LET w == metadata.width
               h == metadata.height
               out == screenshotBuffer
           IN  /\ (w <= 8000 /\ h <= 8000)
                    => out = [width |-> w, height |-> h, bytes |-> "browser"]
               /\ (w > 8000 \/ h > 8000)
                    => /\ out.bytes = "sharp"
                       /\ out.width \in { ExactFloor(w, w, h) - 1, ExactFloor(w, w, h) }
                       /\ out.height \in { ExactFloor(h, w, h) - 1, ExactFloor(h, w, h) }
               /\ out.width <= 8000 /\ out.height <= 8000
               /\ (w = 16000 /\ h = 8000) => (out.width = 8000 /\ out.height = 4000)
               /\ Normalize(out, [width |-> out.width, height |-> out.height]) = out

\* An image of 8311 x 4000 was re-encoded at 7999 x 3850.
C18_Witness ==
    /\ bpc = "build"
    /\ metadata = [width |-> 8311, height |-> 4000]
    /\ screenshotBuffer = [width |-> 7999, height |-> 3850, bytes |-> "sharp"]

\* C19: in every successful capture result, metadata.imageWidth and
\* metadata.imageHeight are the pixel dimensions of the image returned in
\* data, so neither exceeds 8000.
C19_MetadataMatchesData ==
    ( /\ tool \in {"capture_screenshot", "capture_element"}
      /\ bpc \in {"handler", "done"}
      /\ completion.tag = "ok" )
        => /\ completion.value.metadata.imageWidth = completion.value.data.width
           /\ completion.value.metadata.imageHeight = completion.value.data.height
           /\ completion.value.metadata.imageWidth <= 8000
           /\ completion.value.metadata.imageHeight <= 8000

\* The image parts of the response.
ImageParts ==
    { i \in 1 .. Len(response.content) : response.content[i].type = "image" }

\* C20: every tool call the handler has finished has a normal response: for
\* an unknown tool or an error of the orchestrator, one text part
\* "Error: <message>" with isError true; for a successful capture, no error
\* flag and exactly one image part, of MIME type image/png.
C20_HandlerNeverThrows ==
    bpc = "done"
        => /\ tool \notin {"capture_screenshot", "capture_element",
                            "list_device_presets"}
                => completion.tag = "error"
           /\ completion.tag = "error"
                => /\ response.isError
                   /\ Len(response.content) = 1
                   /\ response.content[1]
                        = [type |-> "text",
                           text |-> "Error: " \o completion.err.message]
           /\ completion.tag = "ok"
                => /\ ~response.isError
                   /\ tool \in {"capture_screenshot", "capture_element"}
                        => /\ Cardinality(ImageParts) = 1
                           /\ \A i \in ImageParts :
                                /\ response.content[i].mimeType = "image/png"
                                /\ response.content[i].data = completion.value.data

\* A capture refused with RATE_LIMIT_EXCEEDED was answered with an error
\* response.
C20_Witness ==
    /\ bpc = "done"
    /\ tool = "capture_screenshot"
    /\ completion.tag = "error"
    /\ completion.err.code = "RATE_LIMIT_EXCEEDED"
    /\ response.isError
    /\ response.content[1].text = "Error: Too many concurrent screenshot requests"

\* The step, if it applies.
If(applies, step) == IF applies THEN << step >> ELSE << >>

\* The steps of a successful captureScreenshot call, in the order stated.
StepsInOrder ==
    << "admit", "validateUrl", "initialize" >>
        \o If(Performed("launch"), "launch")
        \o << "newPage", "setViewport" >>
        \o If(pageViewport.userAgent # "", "setUserAgent")
        \o << "setDefaultTimeout", "goto" >>
        \o If(args.waitFor.type # "", "waitFor")
        \o If(args.standardDelay # "false", "sleep standardDelay")
        \o If(args.delay # 0, "sleep delay")
        \o << "screenshot" >>
        \o If(metadata.width > 8000 \/ metadata.height > 8000, "resize")
        \o << "build metadata", "close", "release" >>

\* C21: a captureScreenshot call that succeeds has taken exactly the steps
\* admit, validate URL, ensure session, acquire page, viewport, user-agent (if
\* any), timeouts, navigate, wait condition (if any), stability delay (if
\* enabled), explicit delay (if any), screenshot, resize, build metadata,
\* close page, decrement, in this order, before its result is visible; and in
\* every call the screenshot comes after the navigation and the waits, and
\* the decrement after the page's close.
C21_StepsInOrder ==
    tool = "capture_screenshot"
        => /\ ( bpc \in {"handler", "done"} /\ completion.tag = "ok" )
                => trace = StepsInOrder
           /\ bpc # "done" => response = NoResponse
           /\ ( bpc = "done" /\ Performed("admit") ) => Performed("release")
           /\ Performed("screenshot") => Performed("goto")
           /\ Before("goto", "screenshot")
           /\ Before("waitFor", "screenshot")
           /\ Before("sleep standardDelay", "screenshot")
           /\ Before("sleep delay", "screenshot")
           /\ ( Performed("release") /\ Performed("newPage") ) => Performed("close")
           /\ Before("close", "release")

\* A capture with a user-agent, a wait condition, both delays and a resize
\* has returned its result to the caller.
C21_Witness ==
    /\ tool = "capture_screenshot"
    /\ bpc = "done"
    /\ completion.tag = "ok"
    /\ ~response.isError
    /\ Len(trace) = 17
    /\ Performed("setUserAgent")
    /\ Performed("waitFor")
    /\ Performed("sleep delay")
    /\ Performed("resize")

\* The call holds a slot of the admission gate.
HoldsSlot(c) == kind[c] = "capture" /\ incs[c] = 1 /\ decs[c] = 0

\* C22: if every browser operation eventually returns or fails, every
\* admitted captureScreenshot call eventually completes, with a result or an
\* error, and has released its slot; so the counter never stands at the
\* ceiling, or above zero, with no capture running.  The networkidle loop
\* returns, whatever the network does, less than one poll interval after its
\* timeout (for the timeouts the clock of the model reaches).
C22_AdmittedCompletes ==
    /\ \A c \in Calls :
          HoldsSlot(c) ~> ( /\ pc[c] = "done"
                            /\ status[c] \in {"ok", "failed"}
                            /\ decs[c] = 1 )
    /\ [](CapturesInFlight = {} => activeScreenshots = 0)
    /\ <>[](activeScreenshots = maxConcurrent => CapturesInFlight # {})
    /\ ( wpc = "sleep" /\ timeout + checkInterval <= MaxTime ) ~> wpc = "returned"
    /\ [](wpc \in {"sleep", "returned"}
            => now - startTime < timeout + checkInterval)

\* A capture admitted at the last free slot has failed and released it.
C22_Witness ==
    \E c \in Calls :
        /\ kind[c] = "capture"
        /\ activeAtEntry[c] = maxConcurrent - 1
        /\ pc[c] = "done"
        /\ status[c] = "failed"
        /\ decs[c] = 1
        /\ activeScreenshots = 0

\* The session held and the slots taken when the tool call arrived.
BrowserAtArrival == IF pc[1] = "body" THEN 1 ELSE NoBrowser

SlotsAtArrival == incs[1]

\* The tool call acquired no session and no page.
NothingAcquired ==
    /\ ~Performed("initialize")
    /\ ~Performed("launch")
    /\ ~Performed("newPage")
    /\ ~Performed("newPage rejected")
    /\ browser = BrowserAtArrival

\* C23: an admitted captureScreenshot call with an invalid URL fails without
\* a launch and without a page, having only incremented and then decremented
\* the counter; a captureElement call with an invalid URL, or an absent or
\* dangerous selector, fails without a launch, without a page and without
\* touching the counter.
C23_ValidationBeforeResources ==
    /\ ( /\ tool = "capture_screenshot"
         /\ args.url \in {"ftp://a.test/x", "not a url"}
         /\ Performed("admit") )
          => /\ NothingAcquired
             /\ bpc = "catch"
                  => ( trace = << "admit", "validateUrl" >>
                       /\ activeScreenshots = SlotsAtArrival + 1 )
             /\ bpc \in {"handler", "done"}
                  => ( trace = << "admit", "validateUrl", "release" >>
                       /\ activeScreenshots = SlotsAtArrival
                       /\ completion.tag = "error" )
    /\ ( /\ tool = "capture_element"
         /\ \/ args.url \in {"ftp://a.test/x", "not a url"}
            \/ args.selector \in {"", "javascript:alert(1)"} )
          => /\ NothingAcquired
             /\ bpc \in {"handler", "done"}
             /\ completion.tag = "error"
             /\ ~Performed("admit") /\ ~Performed("release")
             /\ activeScreenshots = SlotsAtArrival

\* A capture of "not a url" has failed, and so has an element capture with a
\* dangerous selector made while another capture held the session.
C23_Witness ==
    /\ bpc = "done"
    /\ completion.tag = "error"
    /\ \/ /\ tool = "capture_screenshot"
          /\ args.url = "not a url"
          /\ trace = << "admit", "validateUrl", "release" >>
          /\ browser = NoBrowser
       \/ /\ tool = "capture_element"
          /\ args.selector = "javascript:alert(1)"
          /\ activeScreenshots = 1
          /\ browser = 1

\* Sessions launched (or being launched) and not closed.
LiveSessions == { c \in Calls : session[c] \in {"launching", "running"} }

\* Call c starts puppeteer.launch() in this step.
StartsLaunch(c) == session[c] = "none" /\ session'[c] = "launching"

\* Call c, a capture or an initialize, arrives in this step and gets as far
\* as initialize().
ReachesInitialize(c) ==
    /\ pc[c] = "idle"
    /\ pc'[c] \in {"launch", "inited"}
       \/ (kind'[c] = "initialize" /\ pc'[c] \in {"launch", "settled"})

\* C24: over calls made one after the other, nothing is launched at
\* construction; a capture or initialize launches exactly one session when
\* none is held and none when one is held; a close() that completes leaves no
\* session held, so that the next one launches afresh; at every point at most
\* one launched-and-not-closed session exists.
C24_SessionLifecycle ==
    /\ []( /\ Cardinality(LiveSessions) <= 1
           /\ (\A c \in Calls : pc[c] = "idle")
                => (browser = NoBrowser /\ \A c \in Calls : session[c] = "none")
           /\ browser # NoBrowser => LiveSessions = {browser}
           /\ (browser = NoBrowser /\ Sequential) => LiveSessions = {} )
    /\ [][ \A c \in Calls :
             /\ StartsLaunch(c) => (browser = NoBrowser /\ LiveSessions = {})
             /\ ReachesInitialize(c) =>
                   IF browser = NoBrowser
                     THEN StartsLaunch(c)
                          /\ \A d \in Calls \ {c} : session'[d] = session[d]
                     ELSE session' = session /\ browser' = browser
             /\ ( pc[c] = "teardown" /\ status'[c] = "ok" )
                   => ( browser' = NoBrowser
                        /\ session'[closeTarget[c]] = "closed" ) ]_vars

\* A session was launched by initialize(), closed by close(), and the capture
\* that followed launched a fresh one, now held.
C24_Witness ==
    /\ session[1] = "closed"
    /\ kind[1] = "initialize"
    /\ kind[2] = "close"
    /\ status[2] = "ok"
    /\ kind[3] = "capture"
    /\ session[3] = "running"
    /\ browser = 3

=============================================================================
